---- MODULE Spec2Model ----
(***************************************************************************)
(* A model of the two command-line tools of the repository:                *)
(*   src/list_github_users.py  lists the members and outside collaborators *)
(*                             of an organisation and removes the ones the *)
(*                             operator confirms;                          *)
(*   src/add_users_to_org.py   adds the logins the operator types.         *)
(* Both are sequential programs.  An action of the model is the code       *)
(* between two interactions with the outside world: one HTTP exchange or   *)
(* one line read from the terminal.  The remote API and the operator are   *)
(* nondeterministic.  A response is assumed to arrive and a line is        *)
(* assumed to be typed: network failures and end of input are not part of  *)
(* the model.  The body of a response may be anything: JSON of the         *)
(* expected shape, JSON of another shape, or no JSON at all; the "login"   *)
(* of an item may be a string, null, an array or an object (a number or a  *)
(* boolean is not part of the model).  An exception that no handler        *)
(* catches ends the process (pc = "crashed").  In the list                 *)
(* tool requests, responses and reported hold the whole run; in the add    *)
(* tool, whose loop has no end of its own, they hold the current turn of   *)
(* the loop.                                                               *)
(***************************************************************************)
EXTENDS Integers, Sequences, FiniteSets, TLC

VARIABLES
    pc,          \* where the running program stands
    argv,        \* sys.argv
    environ,     \* os.environ, the value of GITHUB_TOKEN (None when unset)
    org,         \* main: org
    token,       \* main: token
    url,         \* get_paginated: url
    params,      \* get_paginated: params
    npages,      \* pages the running get_paginated has fetched
    yielded,     \* get_paginated alone: the items yielded so far
    members,     \* fetch_org_users_and_collaborators: members
    outside,     \* fetch_org_users_and_collaborators: outside
    combined,    \* fetch_org_users_and_collaborators: list(combined.values())
    users,       \* fetch_org_users_and_collaborators / main: users
    idx,         \* main: idx of the for loop (list tool)
    login,       \* main: login (add tool), remove_user_from_org: login
    user_type,   \* remove_user_from_org: user_type
    line,        \* add tool: the last line input() returned
    requests,    \* the HTTP requests issued, in order
    responses,   \* the response to each of them
    reported,    \* the outcomes printed, in order
    exit_code,   \* the exit code of the process once it has ended
    prompted,    \* list tool: the idx of every confirmation prompt shown
    confirmed,   \* list tool: the idx whose prompt was answered y
    quit_at,     \* list tool: the idx whose prompt was answered q (0: none)
    server       \* get_paginated alone: the page the server holds at each URL

vars == <<pc, argv, environ, org, token, url, params, npages, members, outside,
          combined, users, idx, login, user_type, line, requests, responses,
          reported, exit_code, prompted, confirmed, quit_at, server, yielded>>

(***************************************************************************)
(* Bounds of the model.                                                    *)
(***************************************************************************)
MaxPages == 2        \* list tool: pages the server serves per collection
MaxItems == 3        \* list tool: items the server holds, both collections
MaxLineLen == 2      \* characters in a line typed by the operator
MaxChain == 4        \* get_paginated alone: requests in one enumeration
MaxMerge == 3        \* merger alone: items in each collection

(***************************************************************************)
(* Values.                                                                 *)
(***************************************************************************)
None == "<None>"

GITHUB_API == "https://api.github.com"

EXCLUDED_LOGINS ==
    { "amarentis", "dwhitehead95", "goldForce", "matthewcmorgan",
      "mbarbour-ns", "nbaker-stelligent", "rjackson-dev-ops",
      "stelligent-joao", "stelligent-releasebot",
      "stelligent-topograph-crawlerbot", "zacherytcox-stelligent" }

PER_PAGE == 100

\* params = {"per_page": 100}; params = None is the empty set of parameters
PageParams == { [key |-> "per_page", value |-> PER_PAGE] }
NoParams == {}

\* sys.exit(1) and an uncaught exception both end the process with code 1
EXIT_FAILURE == 1

\* a "login" that is a JSON array or object: a value Python cannot hash
Unhashable == "<unhashable>"

\* the logins the API may return: one the exclusion set holds, one it does
\* not hold, and null
Logins == { "alice", "goldForce" }
MergeLogins == Logins \cup { None }

\* a login in an f-string: str(None) is "None"
format(l) ==
    CASE l = None -> "None"
      [] l \notin { None, Unhashable } -> l
Orgs == { "acme" }
Tokens == { "ghp_t" }

\* a user object of the API; its own "type" field is not the classification
Item(l) == [login |-> l, type |-> "User"]

\* a JSON value that user["login"] raises on: an object without the key
\* "login", such as {"message": ...}, or a value that is no object
Absent == "<absent>"
NoLogin == [login |-> Absent, type |-> Absent]

\* the values of "login" in the items of the model
LoginValues == Logins \cup { None, Unhashable }

SeqsUpTo(S, n) == UNION { [1..k -> S] : k \in 0..n }

(***************************************************************************)
(* A line typed by the operator is a sequence of characters, a character   *)
(* is its Unicode code point, so that str.strip and str.lower are computed *)
(* as Python computes them.                                                *)
(***************************************************************************)
\* the characters of the lines of the model: "\f", "Y", "q", "y"
Chars == { 12, 89, 113, 121 }

\* the characters str.strip() removes, those of str.isspace(): "\t", "\n",
\* "\x0b", "\f", "\r", "\x1c".."\x1f", " ", "\x85", "\xa0" and the spaces of
\* Unicode
Whitespace ==
    (9..13) \cup (28..32) \cup { 133, 160, 5760 } \cup (8192..8202)
        \cup { 8232, 8233, 8239, 8287, 12288 }

\* the upper-case letters below 256: "A".."Z", and "\xc0".."\xde" but "\xd7"
UPPER == (65..90) \cup ((192..222) \ { 215 })

\* the lower-case letter of an upper-case one below 256
LOWER(c) == c + 32

Lines == SeqsUpTo(Chars, MaxLineLen)

RECURSIVE LStrip(_)
LStrip(s) ==
    IF s # << >> /\ Head(s) \in Whitespace THEN LStrip(Tail(s)) ELSE s

RECURSIVE RStrip(_)
RStrip(s) ==
    IF s # << >> /\ s[Len(s)] \in Whitespace
    THEN RStrip(SubSeq(s, 1, Len(s) - 1))
    ELSE s

\* str.strip()
Strip(s) == RStrip(LStrip(s))

\* str.lower() of one character: of a character below 256, or of a
\* whitespace character (the case mapping of the other characters is none
\* of the model's)
LowerChar(c) ==
    CASE c \in UPPER -> LOWER(c)
      [] c \in ((0..255) \cup Whitespace) \ UPPER -> c

\* str.lower()
Lower(s) == [i \in 1..Len(s) |-> LowerChar(s[i])]

\* chr(c), for the characters a string of this module holds: the letters
\* and digits of ASCII, "-", " ", "\t", "\n", "\f" and "\r"
Chr(c) ==
    CASE c \in 65..90 ->
             << "A","B","C","D","E","F","G","H","I","J","K","L","M",
                "N","O","P","Q","R","S","T","U","V","W","X","Y","Z" >>[c - 64]
      [] c \in 97..122 ->
             << "a","b","c","d","e","f","g","h","i","j","k","l","m",
                "n","o","p","q","r","s","t","u","v","w","x","y","z" >>[c - 96]
      [] c \in 48..57 ->
             << "0","1","2","3","4","5","6","7","8","9" >>[c - 47]
      [] c = 45 -> "-"
      [] c = 32 -> " "
      [] c = 9 -> "\t"
      [] c = 10 -> "\n"
      [] c = 12 -> "\f"
      [] c = 13 -> "\r"

\* the Python string of a sequence of characters
RECURSIVE Str(_)
Str(s) == IF s = << >> THEN "" ELSE Chr(Head(s)) \o Str(Tail(s))

\* Python's truth value of an optional string
Truthy(s) == s # None /\ s # ""

(***************************************************************************)
(* The remote API.                                                         *)
(***************************************************************************)
Request(method, u, p, payload) ==
    [method |-> method, url |-> u, params |-> p, json |-> payload]

\* resp.links: the link relations of the response's Link header
NoLinks == {}
NextLink(u) == { [rel |-> "next", url |-> u] }
PrevLink(u) == { [rel |-> "prev", url |-> u] }

\* the body of a page: a JSON array, a single JSON value that is no array,
\* or text that is no JSON
ListBody(s) == [kind |-> "list", data |-> s]
ObjectBody(x) == [kind |-> "object", data |-> << x >>]
InvalidBody == [kind |-> "invalid", data |-> << >>]

Page(status, body, links) == [status |-> status, body |-> body, links |-> links]

DIGITS == << "1", "2", "3", "4", "5", "6", "7", "8", "9" >>

\* the URL of page n of a collection, as the server writes it in a link
PageUrl(n) ==
    GITHUB_API \o "/organizations/1/members?per_page=100&page=" \o DIGITS[n]

\* a GET is answered with 200 or with one of these
GetFailures == { 201, 404 }

(***************************************************************************)
(* src/list_github_users.py                                                *)
(***************************************************************************)
members_path(o) == "/orgs/" \o o \o "/members"
outside_path(o) == "/orgs/" \o o \o "/outside_collaborators"

\* get_paginated: the request of one turn of its loop
page_request(u, p) == Request("GET", u, p, {})

\* a variant of page_failed that takes only a server error for a failure
page_failed_5xx(resp) == resp.status >= 500

\* get_paginated: a response that ends the process
page_failed(resp) == resp.status # 200

\* get_paginated: resp.json() raises on a body that is no JSON, and no
\* handler catches it
json_raises(resp) == resp.body.kind = "invalid"

\* get_paginated: the items one response yields
page_items(resp) ==
    IF resp.body.kind = "list" THEN resp.body.data ELSE << resp.body.data[1] >>

has_next(resp) == \E l \in resp.links : l.rel = "next"

\* get_paginated: url after one response
next_url(resp) ==
    IF has_next(resp)
    THEN (CHOOSE l \in resp.links : l.rel = "next").url
    ELSE None

\* a variant of next_params that keeps per_page on the later requests
next_params_kept(p, resp) == p

\* get_paginated: params after one response
next_params(p, resp) == IF has_next(resp) THEN NoParams ELSE p

\* a variant of loop_goes_on that stops after two pages
loop_goes_on_capped(resp) == Truthy(next_url(resp)) /\ npages < 1

\* get_paginated: whether its loop takes another turn
loop_goes_on(resp) == Truthy(next_url(resp))

\* the list comprehensions of fetch_org_users_and_collaborators:
\* user["login"] raises on an item without it, and no handler catches it
login_raises(items) == \E i \in 1..Len(items) : items[i].login = Absent

\* the items a comprehension reads before it raises, all when it does not
RECURSIVE read_items(_)
read_items(items) ==
    IF items = << >> \/ Head(items).login = Absent THEN << >>
    ELSE << Head(items) >> \o read_items(Tail(items))

\* the entries a comprehension builds of the items it reads
entries(items, type) ==
    [i \in 1..Len(items) |-> [login |-> items[i].login, type |-> type]]

\* a variant of key that tells entries apart by login alone
key_login_only(entry) == << entry.login >>

key(entry) == << entry.login, entry.type >>

\* the OrderedDict loop: `key not in combined` raises on a key that holds a
\* value Python cannot hash, and no handler catches it
hash_raises(es) == \E i \in 1..Len(es) : es[i].login = Unhashable

\* the OrderedDict loop: the first entry of every key, in order
RECURSIVE dedupe(_, _)
dedupe(acc, rest) ==
    IF rest = << >> THEN acc
    ELSE IF \E i \in 1..Len(acc) : key(acc[i]) = key(Head(rest))
         THEN dedupe(acc, Tail(rest))
         ELSE dedupe(Append(acc, Head(rest)), Tail(rest))

\* list(combined.values())
combine(ms, os) == dedupe(<< >>, ms \o os)

\* a variant of not_excluded that filters the members alone
not_excluded_members_only(u) ==
    u.type = "OutsideCollaborator" \/ u.login \notin EXCLUDED_LOGINS

not_excluded(u) == u.login \notin EXCLUDED_LOGINS

\* the exclude filter
exclude(us) == SelectSeq(us, not_excluded)

\* a variant of remove_path that sends every known classification to the
\* member path
remove_path_members(o, l, t) ==
    IF t \in { "OrgMember", "OutsideCollaborator" }
    THEN "/orgs/" \o o \o "/members/" \o format(l)
    ELSE None

\* remove_user_from_org: the path of the classification, None when unknown
remove_path(o, l, t) ==
    IF t = "OrgMember" THEN "/orgs/" \o o \o "/members/" \o format(l)
    ELSE IF t = "OutsideCollaborator"
         THEN "/orgs/" \o o \o "/outside_collaborators/" \o format(l)
         ELSE None

\* remove_user_from_org: the requests it issues
remove_requests(o, l, t) ==
    IF remove_path(o, l, t) = None THEN << >>
    ELSE << Request("DELETE", GITHUB_API \o remove_path(o, l, t), NoParams, {}) >>

remove_succeeded(status) == status \in {204, 202}

\* remove_user_from_org: what it prints for a response; the body of a
\* failure is shown as JSON, or as text when resp.json() raises
remove_report(l, t, resp) ==
    IF remove_succeeded(resp.status)
    THEN [outcome |-> "Success", login |-> l, type |-> t, status |-> 0,
          shown |-> "none"]
    ELSE [outcome |-> "Failure", login |-> l, type |-> t,
          status |-> resp.status,
          shown |-> IF resp.json = "invalid" THEN "text" ELSE "json"]

\* remove_user_from_org on an unknown classification
remove_skipped(l, t) ==
    [outcome |-> "Unknown", login |-> l, type |-> t, status |-> 0,
     shown |-> "none"]

\* a variant of is_quit that waits for the whole word
is_quit_word(answer) == Str(answer) = "quit"

\* a variant of is_yes that deletes unless told not to
is_yes_default(answer) == Str(answer) # "n"

\* main: the answers of the confirmation prompt
answer_of(ln) == Lower(Strip(ln))
is_quit(answer) == Str(answer) = "q"
is_yes(answer) == Str(answer) = "y"

exit(code) ==
    /\ pc' = "exited"
    /\ exit_code' = code

\* an exception no handler catches: a traceback, and the process ends with
\* code 1
uncaught ==
    /\ pc' = "crashed"
    /\ exit_code' = EXIT_FAILURE

\* what the operator's answer to a confirmation prompt of the list tool asks
AnsweredYes(ln) == Str(Lower(Strip(ln))) = "y"
AnsweredQuit(ln) == Str(Lower(Strip(ln))) = "q"

\* the pages the server may answer the list tool's next GET with, when the
\* running enumeration has fetched n pages holding `fetched` items
ToolItems == { Item(l) : l \in LoginValues } \cup { NoLogin }

ToolBodies(fetched) ==
    { ListBody(s) : s \in SeqsUpTo(ToolItems, MaxItems - Len(fetched)) }
        \cup { ObjectBody(x) :
                 x \in IF Len(fetched) < MaxItems THEN ToolItems ELSE {} }
        \cup { InvalidBody }

ToolLinks(n) ==
    { NoLinks }
        \cup { NextLink(PageUrl(k)) : k \in (n + 2)..(n + 2) \cap 1..MaxPages }

ToolPages(fetched, n) ==
    { Page(s, ListBody(<< >>), NoLinks) : s \in GetFailures }
        \cup { Page(200, b, l) : b \in ToolBodies(fetched), l \in ToolLinks(n) }

DeleteResponses == [status : {204, 404}, json : {"invalid"}]

\* main, lines 139-147: the argument, the token, the first generator
list_main ==
    /\ pc = "main"
    /\ IF Len(argv) < 2
       THEN exit(EXIT_FAILURE) /\ UNCHANGED <<org, token, url, params>>
       ELSE IF ~Truthy(environ)
            THEN /\ exit(EXIT_FAILURE)
                 /\ org' = argv[2]
                 /\ UNCHANGED <<token, url, params>>
            ELSE /\ org' = argv[2]
                 /\ token' = environ
                 /\ url' = GITHUB_API \o members_path(argv[2])
                 /\ params' = PageParams
                 /\ pc' = "members"
                 /\ UNCHANGED exit_code
    /\ UNCHANGED <<argv, environ, npages, members, outside, combined, users,
                   idx, login, user_type, line, requests, responses, reported,
                   prompted, confirmed, quit_at, server, yielded>>

\* one turn of get_paginated's loop while the members are listed
fetch_members ==
    /\ pc = "members"
    /\ \E resp \in ToolPages(members, npages) :
        /\ requests' = Append(requests, page_request(url, params))
        /\ responses' = Append(responses, resp.status)
        /\ IF page_failed(resp)
           THEN /\ exit(EXIT_FAILURE)
                /\ UNCHANGED <<url, params, npages, members>>
           ELSE IF json_raises(resp)
           THEN /\ uncaught
                /\ UNCHANGED <<url, params, npages, members>>
           ELSE /\ members' =
                       members \o entries(read_items(page_items(resp)), "OrgMember")
                /\ IF login_raises(page_items(resp))
                   THEN /\ uncaught
                        /\ UNCHANGED <<url, params, npages>>
                   ELSE IF loop_goes_on(resp)
                   THEN /\ url' = next_url(resp)
                        /\ params' = next_params(params, resp)
                        /\ npages' = npages + 1
                        /\ pc' = "members"
                        /\ UNCHANGED exit_code
                   ELSE /\ url' = GITHUB_API \o outside_path(org)
                        /\ params' = PageParams
                        /\ npages' = 0
                        /\ pc' = "outside"
                        /\ UNCHANGED exit_code
    /\ UNCHANGED <<argv, environ, org, token, outside, combined, users, idx,
                   login, user_type, line, reported, prompted, confirmed,
                   quit_at, server, yielded>>

\* one turn of get_paginated's loop while the outside collaborators are
\* listed; after the last page, lines 93-105 and 149-157
fetch_outside ==
    /\ pc = "outside"
    /\ \E resp \in ToolPages(members \o outside, npages) :
        /\ requests' = Append(requests, page_request(url, params))
        /\ responses' = Append(responses, resp.status)
        /\ IF page_failed(resp)
           THEN /\ exit(EXIT_FAILURE)
                /\ UNCHANGED <<url, params, npages, outside, combined, users, idx>>
           ELSE IF json_raises(resp)
           THEN /\ uncaught
                /\ UNCHANGED <<url, params, npages, outside, combined, users, idx>>
           ELSE /\ outside' =
                       outside \o entries(read_items(page_items(resp)),
                                          "OutsideCollaborator")
                /\ IF login_raises(page_items(resp))
                   THEN /\ uncaught
                        /\ UNCHANGED <<url, params, npages, combined, users, idx>>
                   ELSE IF loop_goes_on(resp)
                   THEN /\ url' = next_url(resp)
                        /\ params' = next_params(params, resp)
                        /\ npages' = npages + 1
                        /\ pc' = "outside"
                        /\ UNCHANGED <<combined, users, idx, exit_code>>
                   ELSE /\ url' = next_url(resp)
                        /\ params' = next_params(params, resp)
                        /\ npages' = 0
                        /\ IF hash_raises(members \o outside')
                           THEN /\ uncaught
                                /\ UNCHANGED <<combined, users, idx>>
                           ELSE /\ combined' = combine(members, outside')
                                /\ users' = exclude(combined')
                                /\ IF users' = << >>
                                   THEN pc' = "done" /\ exit_code' = 0
                                                    /\ idx' = idx
                                   ELSE pc' = "prompt" /\ idx' = 1
                                                      /\ UNCHANGED exit_code
    /\ UNCHANGED <<argv, environ, org, token, members, login, user_type, line,
                   reported, prompted, confirmed, quit_at, server, yielded>>

\* remove_user_from_org, on the response resp to the request it issues
remove_user_from_org(o, l, t, resp) ==
    IF remove_requests(o, l, t) = << >>
    THEN /\ reported' = Append(reported, remove_skipped(l, t))
         /\ UNCHANGED <<requests, responses>>
    ELSE /\ requests' = requests \o remove_requests(o, l, t)
         /\ responses' = Append(responses, resp.status)
         /\ reported' = Append(reported, remove_report(l, t, resp))

\* the for loop of main going on to its next entry, or ending
next_entry ==
    IF idx < Len(users)
    THEN idx' = idx + 1 /\ pc' = "prompt" /\ UNCHANGED exit_code
    ELSE idx' = idx /\ pc' = "done" /\ exit_code' = 0

\* one turn of the for loop of main, lines 157-172
confirm_delete ==
    /\ pc = "prompt"
    /\ \E ln \in Lines :
        /\ login' = users[idx].login
        /\ user_type' = users[idx].type
        /\ prompted' = Append(prompted, idx)
        /\ confirmed' = IF AnsweredYes(ln) THEN confirmed \cup {idx} ELSE confirmed
        /\ quit_at' = IF AnsweredQuit(ln) THEN idx ELSE quit_at
        /\ IF is_quit(answer_of(ln))
           THEN /\ pc' = "done"
                /\ exit_code' = 0
                /\ UNCHANGED <<idx, requests, responses, reported>>
           ELSE IF is_yes(answer_of(ln))
                THEN /\ \E resp \in DeleteResponses :
                            remove_user_from_org(org, users[idx].login,
                                                 users[idx].type, resp)
                     /\ next_entry
                ELSE /\ next_entry
                     /\ UNCHANGED <<requests, responses, reported>>
    /\ UNCHANGED <<argv, environ, org, token, url, params, npages, members,
                   outside, combined, users, line, server, yielded>>

\* the state of a process that has not run yet
Idle ==
    /\ org = "" /\ token = None /\ url = None /\ params = NoParams
    /\ npages = 0 /\ members = << >> /\ outside = << >>
    /\ combined = << >> /\ users = << >> /\ idx = 0
    /\ login = "" /\ user_type = "" /\ line = << >>
    /\ requests = << >> /\ responses = << >> /\ reported = << >>
    /\ exit_code = -1 /\ prompted = << >> /\ confirmed = {} /\ quit_at = 0
    /\ yielded = << >> /\ server = << >>

Environs == { None, "" } \cup Tokens

Init ==
    /\ pc = "main"
    /\ argv \in { << "list_github_users.py" >> }
                    \cup { << "list_github_users.py", o >> : o \in Orgs }
    /\ environ \in Environs
    /\ Idle

Next == list_main \/ fetch_members \/ fetch_outside \/ confirm_delete

Spec == Init /\ [][Next]_vars

(***************************************************************************)
(* get_paginated alone, fully consumed, against a server that holds one    *)
(* page at each URL.  A "next" relation may lead to any of the URLs, also  *)
(* to one already visited.                                                 *)
(***************************************************************************)
FetchUrls ==
    { GITHUB_API \o members_path(o) : o \in Orgs } \cup { PageUrl(2), PageUrl(3) }

FetchBodies ==
    { ListBody(<< >>), ListBody(<< Item("alice") >>),
      ListBody(<< Item("goldForce"), Item("alice") >>),
      ObjectBody(Item("goldForce")), ObjectBody(NoLogin), InvalidBody }

FetchPages ==
    { Page(s, ListBody(<< >>), NoLinks) : s \in GetFailures }
        \cup { Page(200, b, l) :
                 b \in FetchBodies,
                 l \in { NoLinks, PrevLink(GITHUB_API \o members_path("acme")) }
                           \cup { NextLink(PageUrl(k)) : k \in 2..3 } }

\* one turn of get_paginated's loop, lines 58-77, its items consumed
get_paginated ==
    /\ pc = "get_paginated"
    /\ npages < MaxChain
    /\ requests' = Append(requests, page_request(url, params))
    /\ responses' = Append(responses, server[url].status)
    /\ npages' = npages + 1
    /\ IF page_failed(server[url])
       THEN /\ exit(EXIT_FAILURE)
            /\ UNCHANGED <<url, params, yielded>>
       ELSE IF json_raises(server[url])
       THEN /\ uncaught
            /\ UNCHANGED <<url, params, yielded>>
       ELSE /\ yielded' = yielded \o page_items(server[url])
            /\ url' = next_url(server[url])
            /\ params' = next_params(params, server[url])
            /\ pc' = IF loop_goes_on(server[url]) THEN "get_paginated"
                                                ELSE "returned"
            /\ UNCHANGED exit_code
    /\ UNCHANGED <<argv, environ, org, token, members, outside, combined,
                   users, idx, login, user_type, line, reported, prompted,
                   confirmed, quit_at, server>>

InitFetch ==
    /\ pc = "get_paginated"
    /\ argv = << >> /\ environ = None
    /\ server \in [FetchUrls -> FetchPages]
    /\ \E o \in Orgs, t \in Tokens :
          /\ org = o /\ token = t
          /\ url = GITHUB_API \o members_path(o)
    /\ params = PageParams
    /\ npages = 0 /\ members = << >> /\ outside = << >>
    /\ combined = << >> /\ users = << >> /\ idx = 0
    /\ login = "" /\ user_type = "" /\ line = << >>
    /\ requests = << >> /\ responses = << >> /\ reported = << >>
    /\ exit_code = -1 /\ prompted = << >> /\ confirmed = {} /\ quit_at = 0
    /\ yielded = << >>

NextFetch == get_paginated

SpecFetch == InitFetch /\ [][NextFetch]_vars

\* the process runs on as long as it can
FairSpecFetch == SpecFetch /\ WF_vars(NextFetch)

(***************************************************************************)
(* The merger alone: lines 93-105 of fetch_org_users_and_collaborators on  *)
(* the two lists the comprehensions built.                                 *)
(***************************************************************************)
MergeItems ==
    SeqsUpTo({ Item(l) : l \in MergeLogins \cup { Unhashable } }, MaxMerge)

merge_users ==
    /\ pc = "combine"
    /\ IF hash_raises(members \o outside)
       THEN /\ uncaught
            /\ UNCHANGED <<combined, users>>
       ELSE /\ combined' = combine(members, outside)
            /\ users' = exclude(combined')
            /\ pc' = "merged"
            /\ UNCHANGED exit_code
    /\ UNCHANGED <<argv, environ, org, token, url, params, npages, members,
                   outside, idx, login, user_type, line, requests, responses,
                   reported, prompted, confirmed, quit_at, server, yielded>>

InitMerge ==
    /\ pc = "combine"
    /\ argv = << >> /\ environ = None
    /\ org = "" /\ token = None /\ url = None /\ params = NoParams
    /\ npages = 0
    /\ members \in { entries(s, "OrgMember") : s \in MergeItems }
    /\ outside \in { entries(s, "OutsideCollaborator") : s \in MergeItems }
    /\ combined = << >> /\ users = << >> /\ idx = 0
    /\ login = "" /\ user_type = "" /\ line = << >>
    /\ requests = << >> /\ responses = << >> /\ reported = << >>
    /\ exit_code = -1 /\ prompted = << >> /\ confirmed = {} /\ quit_at = 0
    /\ yielded = << >> /\ server = << >>

NextMerge == merge_users

SpecMerge == InitMerge /\ [][NextMerge]_vars

(***************************************************************************)
(* remove_user_from_org alone, on any classification.                      *)
(***************************************************************************)
UserTypes == { "OrgMember", "OutsideCollaborator", "User", "" }
RemoveOrgs == Orgs \cup { "stelligent" }
RemoveResponses ==
    [status : {204, 202, 200, 404, 403}, json : {"object", "invalid"}]

remove_user ==
    /\ pc = "remove_user_from_org"
    /\ \E resp \in RemoveResponses :
          remove_user_from_org(org, login, user_type, resp)
    /\ pc' = "removed"
    /\ UNCHANGED <<argv, environ, org, token, url, params, npages, members,
                   outside, combined, users, idx, login, user_type, line,
                   exit_code, prompted, confirmed, quit_at, server, yielded>>

InitRemove ==
    /\ pc = "remove_user_from_org"
    /\ argv = << >> /\ environ = None
    /\ org \in RemoveOrgs /\ token \in Tokens
    /\ login \in MergeLogins /\ user_type \in UserTypes
    /\ url = None /\ params = NoParams
    /\ npages = 0 /\ members = << >> /\ outside = << >>
    /\ combined = << >> /\ users = << >> /\ idx = 0 /\ line = << >>
    /\ requests = << >> /\ responses = << >> /\ reported = << >>
    /\ exit_code = -1 /\ prompted = << >> /\ confirmed = {} /\ quit_at = 0
    /\ yielded = << >> /\ server = << >>

NextRemove == remove_user

SpecRemove == InitRemove /\ [][NextRemove]_vars

(***************************************************************************)
(* src/add_users_to_org.py                                                 *)
(***************************************************************************)
ROLE == "member"

add_url(o, username) == GITHUB_API \o "/orgs/" \o o \o "/memberships/" \o username

\* add_user_to_org: the request it issues
add_request(o, username) ==
    Request("PUT", add_url(o, username), NoParams,
            { [key |-> "role", value |-> ROLE] })

\* add_user_to_org: resp.json() raises on a body that is no JSON, and
\* data.get on a JSON body that is no object; the success branch catches
\* neither
add_raises(resp) == resp.status \in {200, 201} /\ resp.json # "object"

\* the try/except of the other branches: the body as JSON, else as text
shown_body(resp) == IF resp.json = "invalid" THEN "text" ELSE "json"

\* add_user_to_org: what it prints for a response it does not raise on
add_report(username, resp) ==
    IF resp.status \in {200, 201}
    THEN [outcome |-> "Success", login |-> username, status |-> 0,
          shown |-> "state, role"]
    ELSE IF resp.status = 404
    THEN [outcome |-> "NotFoundOrForbidden", login |-> username,
          status |-> 404, shown |-> shown_body(resp)]
    ELSE IF resp.status = 403
    THEN [outcome |-> "Forbidden", login |-> username, status |-> 403,
          shown |-> shown_body(resp)]
    ELSE [outcome |-> "Unexpected", login |-> username,
          status |-> resp.status, shown |-> shown_body(resp)]

\* a variant of confirm_of that keeps the case of the answer
confirm_of_stripped(ln) == Strip(ln)

\* main: the tests of the two prompts
login_of(ln) == Strip(ln)
is_exit(lg) == ~Truthy(Str(lg)) \/ Str(Lower(lg)) = "q"
confirm_of(ln) == Lower(Strip(ln))
is_confirmed(confirm) == Str(confirm) = "y"

AddResponses ==
    [status : {200, 201, 404, 403, 500}, json : {"object", "array", "invalid"}]

\* main, lines 79-88: the argument and the token
add_main ==
    /\ pc = "add_main"
    /\ IF Len(argv) < 2
       THEN exit(EXIT_FAILURE) /\ UNCHANGED <<org, token>>
       ELSE IF ~Truthy(environ)
            THEN exit(EXIT_FAILURE) /\ org' = argv[2] /\ UNCHANGED token
            ELSE /\ org' = argv[2]
                 /\ token' = environ
                 /\ pc' = "AwaitingLogin"
                 /\ UNCHANGED exit_code
    /\ UNCHANGED <<argv, environ, url, params, npages, members, outside,
                   combined, users, idx, login, user_type, line, requests,
                   responses, reported, prompted, confirmed, quit_at, server,
                   yielded>>

\* main, lines 90-94: the login prompt, which opens a turn of the loop
read_login ==
    /\ pc = "AwaitingLogin"
    /\ \E ln \in Lines :
        /\ line' = ln
        /\ login' = Str(login_of(ln))
        /\ IF is_exit(login_of(ln))
           THEN pc' = "Terminated" /\ exit_code' = 0
           ELSE pc' = "AwaitingConfirmation" /\ UNCHANGED exit_code
    /\ requests' = << >>
    /\ responses' = << >>
    /\ reported' = << >>
    /\ UNCHANGED <<argv, environ, org, token, url, params, npages, members,
                   outside, combined, users, idx, user_type, prompted,
                   confirmed, quit_at, server, yielded>>

\* main, lines 97-103, and add_user_to_org: the confirmation prompt
read_confirm ==
    /\ pc = "AwaitingConfirmation"
    /\ \E ln \in Lines :
        /\ line' = ln
        /\ IF ~is_confirmed(confirm_of(ln))
           THEN /\ pc' = "AwaitingLogin"
                /\ UNCHANGED <<requests, responses, reported, exit_code>>
           ELSE \E resp \in AddResponses :
                /\ requests' = Append(requests, add_request(org, login))
                /\ responses' = Append(responses, resp)
                /\ IF add_raises(resp)
                   THEN /\ uncaught
                        /\ UNCHANGED reported
                   ELSE /\ reported' = Append(reported, add_report(login, resp))
                        /\ pc' = "AwaitingLogin"
                        /\ UNCHANGED exit_code
    /\ UNCHANGED <<argv, environ, org, token, url, params, npages, members,
                   outside, combined, users, idx, login, user_type, prompted,
                   confirmed, quit_at, server, yielded>>

InitAdd ==
    /\ pc = "add_main"
    /\ argv \in { << "add_users_to_org.py" >> }
                    \cup { << "add_users_to_org.py", o >> : o \in Orgs }
    /\ environ \in Environs
    /\ Idle

NextAdd == add_main \/ read_login \/ read_confirm

SpecAdd == InitAdd /\ [][NextAdd]_vars

(***************************************************************************)
(* Properties.  They are stated in terms of the requests, the responses    *)
(* and the lists, not of the operators above.                              *)
(***************************************************************************)
KeyOf(e) == << e.login, e.type >>
KeysOf(es) == { KeyOf(es[i]) : i \in 1..Len(es) }
FirstAt(es, k) == CHOOSE i \in 1..Len(es) : KeyOf(es[i]) = k /\ \A j \in 1..(i - 1) : KeyOf(es[j]) # k
Last(q) == q[Len(q)]
IsGet(r) == r.method = "GET"
IsDelete(r) == r.method = "DELETE"
IsPut(r) == r.method = "PUT"
Ended == pc \in { "done", "exited", "returned", "Terminated", "crashed" }
Fetched == members \o outside

\* C1: the list built before exclusion holds every fetched (login, type) key
\* exactly once, each key with its first entry, in the order of the first
\* occurrences: the members in the order returned, then the outside
\* collaborators in the order returned.
C1_DedupedInFirstSeenOrder ==
    pc = "merged" =>
        /\ KeysOf(combined) = KeysOf(Fetched)
        /\ \A i, j \in 1..Len(combined) :
              i < j => /\ KeyOf(combined[i]) # KeyOf(combined[j])
                       /\ FirstAt(Fetched, KeyOf(combined[i]))
                              < FirstAt(Fetched, KeyOf(combined[j]))
                       /\ ~(combined[i].type = "OutsideCollaborator"
                              /\ combined[j].type = "OrgMember")
        /\ \A i \in 1..Len(combined) :
              combined[i] = Fetched[FirstAt(Fetched, KeyOf(combined[i]))]

\* C1: a login listed twice among the members and again among the outside
\* collaborators has been merged
C1_Witness ==
    /\ pc = "merged"
    /\ Len(combined) >= 3
    /\ Len(combined) < Len(Fetched)
    /\ \E i, j \in 1..Len(members) : i < j /\ members[i] = members[j]
    /\ \E i \in 1..Len(members), j \in 1..Len(outside) :
          members[i].login = outside[j].login

\* the indices of the entries of es whose login the exclusion set lacks
Kept(es) == { i \in 1..Len(es) : es[i].login \notin EXCLUDED_LOGINS }
NthKept(es, n) ==
    CHOOSE i \in Kept(es) : Cardinality({ j \in Kept(es) : j <= i }) = n

\* C2: the list returned holds no entry, of either type, whose login is in
\* the exclusion set, and holds every other entry of the deduplicated list,
\* in the same relative order.
C2_ExcludedNeverListed ==
    pc = "merged" =>
        /\ \A i \in 1..Len(users) : users[i].login \notin EXCLUDED_LOGINS
        /\ Len(users) = Cardinality(Kept(combined))
        /\ \A n \in 1..Len(users) : users[n] = combined[NthKept(combined, n)]
        /\ \A k \in KeysOf(Fetched) :
              k[1] \notin EXCLUDED_LOGINS => k \in KeysOf(users)

\* C2: an excluded login fetched as a member and as an outside collaborator,
\* between entries that stay
C2_Witness ==
    /\ pc = "merged"
    /\ Len(users) >= 2
    /\ Len(users) < Len(combined)
    /\ \E i \in 1..Len(members), j \in 1..Len(outside) :
          /\ members[i].login \in EXCLUDED_LOGINS
          /\ outside[j].login = members[i].login

\* the chain of pages the server's "next" relations lead through from the
\* first URL, followed for at most `fuel` pages
LinkedFrom(u) == { l.url : l \in { m \in server[u].links : m.rel = "next" } }
RECURSIVE Walk(_, _)
Walk(u, fuel) ==
    IF fuel = 0 THEN << >>
    ELSE IF server[u].status = 200 /\ LinkedFrom(u) # {}
         THEN << u >> \o Walk(CHOOSE v \in LinkedFrom(u) : TRUE, fuel - 1)
         ELSE << u >>
FirstUrl == GITHUB_API \o "/orgs/" \o org \o "/members"
Chain == Walk(FirstUrl, Cardinality(FetchUrls) + 1)
\* the chain ends: on a page without a next link, or on a failed page
ChainEnds ==
    server[Last(Chain)].status # 200 \/ LinkedFrom(Last(Chain)) = {}
ChainFails == server[Last(Chain)].status # 200

\* a page answered with 200 whose body is no JSON
Unparsed(u) == server[u].status = 200 /\ server[u].body.kind = "invalid"
\* the same chain, followed no further than its first page of that kind
RECURSIVE WalkParsed(_, _)
WalkParsed(u, fuel) ==
    IF fuel = 0 THEN << >>
    ELSE IF server[u].status = 200 /\ ~Unparsed(u) /\ LinkedFrom(u) # {}
         THEN << u >> \o WalkParsed(CHOOSE v \in LinkedFrom(u) : TRUE, fuel - 1)
         ELSE << u >>
ParsedChain == WalkParsed(FirstUrl, Cardinality(FetchUrls) + 1)
LastPage == server[Last(ParsedChain)]
EndsNormally ==
    /\ LastPage.status = 200
    /\ ~Unparsed(Last(ParsedChain))
    /\ LinkedFrom(Last(ParsedChain)) = {}
EndsFailed == LastPage.status # 200
EndsUnparsed == Unparsed(Last(ParsedChain))
RECURSIVE ItemsAlong(_)
ItemsAlong(us) ==
    IF us = << >> THEN << >>
    ELSE server[Head(us)].body.data \o ItemsAlong(Tail(us))

\* C3: on a chain of n pages answered with 200, each with a JSON body, the
\* last without a next link, get_paginated neither exits nor raises and,
\* when it returns, has yielded the items of the pages in order, each once,
\* with n GET requests: the first to the resource path with per_page=100,
\* each later one to the next URL the server gave, with no parameters.
C3_YieldsEveryPageInOrder ==
    EndsNormally =>
        /\ pc \notin { "exited", "crashed" }
        /\ pc = "returned" =>
              /\ yielded = ItemsAlong(ParsedChain)
              /\ Len(requests) = Len(ParsedChain)
              /\ requests[1] = Request("GET", FirstUrl, PageParams, {})
              /\ \A i \in 2..Len(requests) :
                    requests[i] = Request("GET", ParsedChain[i], NoParams, {})

\* C3: three pages fetched, among them a page of two items and a page whose
\* body is a single object
C3_Witness ==
    /\ pc = "returned"
    /\ Len(requests) = 3
    /\ \E i \in 1..3 : server[ParsedChain[i]].body.kind = "object"
    /\ \E i \in 1..3 : Len(server[ParsedChain[i]].body.data) = 2

\* a status that is not a success (2xx)
NonSuccess(status) == status < 200 \/ status >= 300
MissingArgument == Len(argv) < 2
MissingToken == environ = None \/ environ = ""
Deletes == SelectSeq(requests, IsDelete)
NoDeletes == \A i \in 1..Len(requests) : ~IsDelete(requests[i])

\* C4: in the list tool a missing argument, an unset or empty GITHUB_TOKEN
\* and a page fetch answered with a non-success status each end the process
\* with a non-zero exit code at once: the failed fetch is the last request,
\* no prompt is shown and no DELETE is issued; with a missing argument or
\* token no request is issued at all.
C4_FatalConditionsExitAtOnce ==
    /\ (pc # "main" /\ (MissingArgument \/ MissingToken)) =>
          /\ pc = "exited"
          /\ exit_code > 0
          /\ requests = << >>
          /\ prompted = << >>
    /\ \A i \in 1..Len(responses) :
          (IsGet(requests[i]) /\ NonSuccess(responses[i])) =>
              /\ pc = "exited"
              /\ exit_code > 0
              /\ i = Len(requests)
              /\ prompted = << >>
              /\ NoDeletes

\* C4: the second page of the outside collaborators fails, after the
\* members were fetched
C4_Witness ==
    /\ pc = "exited"
    /\ Len(requests) >= 3
    /\ NonSuccess(Last(responses))
    /\ Last(requests).url = PageUrl(2)
    /\ members # << >>
    /\ outside # << >>

\* the URL a DELETE for an entry goes to
\* a login as a URL shows it: null as None
Shown(l) == IF l = "<None>" THEN "None" ELSE l
MemberUrl(o, l) == GITHUB_API \o "/orgs/" \o o \o "/members/" \o Shown(l)
OutsideUrl(o, l) ==
    GITHUB_API \o "/orgs/" \o o \o "/outside_collaborators/" \o Shown(l)
DeleteFor(o, e) ==
    Request("DELETE",
            IF e.type = "OrgMember" THEN MemberUrl(o, e.login)
                                    ELSE OutsideUrl(o, e.login),
            NoParams, {})

\* C7: remove_user_from_org issues one DELETE, to the member path for an
\* OrgMember and to the outside-collaborator path for an
\* OutsideCollaborator, and no request for any other classification; it
\* reports Success exactly on 204 and 202, Failure on every other status,
\* and the process goes on.
C7_RemovePathByClassification ==
    /\ pc = "remove_user_from_org" => requests = << >>
    /\ pc = "removed" =>
          /\ exit_code = -1
          /\ Len(reported) = 1
          /\ user_type = "OrgMember" =>
                requests = << Request("DELETE", MemberUrl(org, login), NoParams, {}) >>
          /\ user_type = "OutsideCollaborator" =>
                requests = << Request("DELETE", OutsideUrl(org, login), NoParams, {}) >>
          /\ user_type \notin { "OrgMember", "OutsideCollaborator" } =>
                /\ requests = << >>
                /\ reported[1].outcome \notin { "Success", "Failure" }
          /\ requests # << >> =>
                /\ reported[1].outcome = "Success" <=> responses[1] \in {204, 202}
                /\ reported[1].outcome = "Failure" <=> responses[1] \notin {204, 202}

\* C7: an outside collaborator removed with a 204
C7_Witness ==
    /\ pc = "removed"
    /\ user_type = "OutsideCollaborator"
    /\ responses = << 204 >>
    /\ reported[1].outcome = "Success"
    /\ requests[1].url = OutsideUrl(org, login)

\* C8: once a confirmation prompt of the list tool is answered q, the process
\* is over with that prompt the last one shown, no DELETE has been issued for
\* that entry or a later one, and the only requests are the GETs and the
\* DELETEs confirmed before.
C8_QuitHaltsIteration ==
    quit_at # 0 =>
        /\ pc = "done"
        /\ Last(prompted) = quit_at
        /\ Len(prompted) = quit_at
        /\ \A k \in quit_at..Len(users) :
              \A i \in 1..Len(requests) : requests[i] # DeleteFor(org, users[k])
        /\ Len(Deletes) = Cardinality(confirmed \cap 1..(quit_at - 1))
        /\ \A i \in 1..Len(requests) : IsGet(requests[i]) \/ IsDelete(requests[i])

\* C8: q at the second entry, after the first was deleted
C8_Witness ==
    /\ quit_at = 2
    /\ confirmed = {1}
    /\ Len(Deletes) = 1

\* the entries of es at the indices of S, in increasing order
RECURSIVE Pick(_, _, _)
Pick(es, S, from) ==
    IF from > Len(es) THEN << >>
    ELSE (IF from \in S THEN << es[from] >> ELSE << >>) \o Pick(es, S, from + 1)
DeletesFor(o, es) == [i \in 1..Len(es) |-> DeleteFor(o, es[i])]

\* C9: the DELETEs of a run are those of the entries of the merged, filtered
\* list whose own prompt was answered y, one for each, in list order and
\* after every GET; no login of the exclusion set is prompted for or sent in
\* a DELETE.
C9_DeletesOnlyConfirmedEntries ==
    /\ Deletes = DeletesFor(org, Pick(users, confirmed, 1))
    /\ confirmed \subseteq { prompted[i] : i \in 1..Len(prompted) }
    /\ \A i \in 1..Len(prompted) :
          /\ prompted[i] = i
          /\ users[i].login \notin EXCLUDED_LOGINS
          /\ KeyOf(users[i]) \in KeysOf(Fetched)
    /\ \A i, j \in 1..Len(requests) :
          (i < j /\ IsDelete(requests[i])) => ~IsGet(requests[j])
    /\ \A i \in 1..Len(requests) :
          IsDelete(requests[i]) =>
              \A l \in EXCLUDED_LOGINS :
                  requests[i].url \notin { MemberUrl(org, l), OutsideUrl(org, l) }

\* C9: two entries deleted in a run that fetched an excluded login
C9_Witness ==
    /\ pc = "done"
    /\ confirmed = {1, 2}
    /\ Len(Deletes) = 2
    /\ \E i \in 1..Len(Fetched) : Fetched[i].login \in EXCLUDED_LOGINS

\* C10 as stated: get_paginated, fully consumed, ends exactly when the chain
\* of next links from the first page ends: it returns only on a page without
\* a next link, exits only on a failed page, ends whenever the chain does,
\* and never ends on a chain that leads back into itself, however many pages
\* it has fetched; every request goes to the first URL or to the next URL of
\* the response before it.
C10_EndsExactlyWhenChainEnds ==
    /\ [](pc = "returned" => (ChainEnds /\ ~ChainFails /\ Last(requests).url = Last(Chain)))
    /\ [](Ended /\ pc # "returned" => (ChainFails /\ Last(requests).url = Last(Chain)))
    /\ [](~ChainEnds => pc = "get_paginated")
    /\ ChainEnds ~> Ended
    /\ [][requests' # requests =>
            /\ requests' = Append(requests, Last(requests'))
            /\ IF requests = << >>
               THEN Last(requests').url = FirstUrl
               ELSE Last(requests').url \in LinkedFrom(Last(requests).url)]_vars

\* C10, amended: get_paginated, fully consumed, ends exactly when the chain
\* of next links from the first page comes to a page without a next link
\* (it returns), to a page with a status other than 200 (the process
\* exits), or to a page answered with 200 whose body is no JSON (resp.json()
\* raises and the process ends); on such a page it ends at that request,
\* and on a chain that leads back into itself without one it never ends,
\* however many pages it has fetched; every request goes to the first URL or
\* to the next URL of the response before it.
C10_EndsOnLastFailedOrUnparsedPage ==
    /\ [](pc = "returned" => (EndsNormally /\ Last(requests).url = Last(ParsedChain)))
    /\ [](pc = "exited" => (EndsFailed /\ Last(requests).url = Last(ParsedChain)))
    /\ [](pc = "crashed" => (EndsUnparsed /\ Last(requests).url = Last(ParsedChain)))
    /\ [](Ended => Len(requests) = Len(ParsedChain))
    /\ [](~(EndsNormally \/ EndsFailed \/ EndsUnparsed) => pc = "get_paginated")
    /\ (EndsNormally \/ EndsFailed \/ EndsUnparsed) ~> Ended
    /\ [][requests' # requests =>
            /\ requests' = Append(requests, Last(requests'))
            /\ IF requests = << >>
               THEN Last(requests').url = FirstUrl
               ELSE Last(requests').url \in LinkedFrom(Last(requests).url)]_vars

\* C10: on a chain of next links that leads back into itself the enumeration
\* has ended all the same, at the third page, answered with 200 and a body
\* that is no JSON
C10_Witness ==
    /\ ~ChainEnds
    /\ pc = "crashed"
    /\ Len(requests) = 3
    /\ has_next(server[Last(requests).url])

\* C10: on a chain that leads back into itself, every page of it parsed, the
\* enumeration is still running after every request the model allows, a URL
\* requested again
C10_StillRunning ==
    /\ ~(EndsNormally \/ EndsFailed \/ EndsUnparsed)
    /\ pc = "get_paginated"
    /\ npages = MaxChain
    /\ \E i, j \in 1..Len(requests) : i < j /\ requests[i].url = requests[j].url

\* the outcome the add tool is to report for a status
OutcomeOf(status) ==
    IF status \in {200, 201} THEN "Success"
    ELSE IF status = 404 THEN "NotFoundOrForbidden"
    ELSE IF status = 403 THEN "Forbidden"
    ELSE "Unexpected"

\* C5: whatever the status and the body of the response to the PUT,
\* add_user_to_org has issued that one PUT, reported the one outcome of the
\* status and returned, and the driver is back at the login prompt.
C5_EveryResponseReported ==
    requests # << >> =>
        /\ Len(requests) = 1
        /\ IsPut(requests[1])
        /\ Len(reported) = 1
        /\ reported[1].outcome = OutcomeOf(responses[1].status)
        /\ pc = "AwaitingLogin"
        /\ exit_code = -1

\* what a line asks at the two prompts of the add tool
AsksExit(ln) == Strip(ln) = << >> \/ Str(Lower(Strip(ln))) = "q"
AsksAdd(ln) == Str(Lower(Strip(ln))) = "y"
PutFor(o, ln) ==
    Request("PUT", GITHUB_API \o "/orgs/" \o o \o "/memberships/" \o Str(Strip(ln)),
            NoParams, { [key |-> "role", value |-> "member"] })

\* C6 as stated, the response on which add_user_to_org raises (C5) left
\* aside: Terminated is reached only from AwaitingLogin, on an empty line
\* or q; from AwaitingConfirmation every input leads back to AwaitingLogin,
\* and the PUT for the entered login is issued if and only if the input is
\* exactly "y".
C6_PutOnlyOnExactY ==
    [][/\ (pc' = "Terminated" /\ pc # "Terminated") =>
              (pc = "AwaitingLogin" /\ AsksExit(line'))
       /\ pc = "AwaitingConfirmation" =>
              /\ pc' \in { "AwaitingLogin", "crashed" }
              /\ requests' # << >> <=> Str(line') = "y"]_vars

\* C6, amended: Terminated is reached only from AwaitingLogin, exactly on a
\* line that is empty or q once stripped and lower-cased; at
\* AwaitingConfirmation the PUT for the entered login is issued if and only
\* if the line stripped and lower-cased is "y", every line that issues no
\* PUT leads back to AwaitingLogin, and so does every PUT but the one whose
\* 200 or 201 response has a body that is no JSON object, which ends the
\* process.
C6_DriverStateMachine ==
    [][/\ (pc' = "Terminated" /\ pc # "Terminated") => pc = "AwaitingLogin"
       /\ pc = "AwaitingLogin" =>
              /\ requests' = << >>
              /\ IF AsksExit(line')
                 THEN pc' = "Terminated"
                 ELSE pc' = "AwaitingConfirmation" /\ login' = Str(Strip(line'))
       /\ pc = "AwaitingConfirmation" =>
              IF AsksAdd(line')
              THEN /\ \E ln \in Lines : login = Str(Strip(ln)) /\ ~AsksExit(ln)
                                          /\ requests' = << PutFor(org, ln) >>
                   /\ Len(responses') = 1
                   /\ IF responses'[1].status \in {200, 201}
                         /\ responses'[1].json # "object"
                      THEN pc' = "crashed"
                      ELSE pc' = "AwaitingLogin"
              ELSE /\ requests' = << >>
                   /\ pc' = "AwaitingLogin"]_vars

\* C6: a PUT issued on the answer "Y"
C6_Witness ==
    /\ pc = "AwaitingLogin"
    /\ Str(line) = "Y"
    /\ Len(requests) = 1
    /\ IsPut(requests[1])

====
